---- MODULE Spec2Model ----
(***************************************************************************)
(* State-machine model of the crawl engine of src/index.js: fetchHtml      *)
(* (retry and backoff), parsePage, detectLastPage, the checkpoint file,    *)
(* crawlAll (probe, resume, page walk, dedupe, checkpoint reset) and the   *)
(* /refresh handler that publishes the result.                             *)
(*                                                                         *)
(* A URL is modelled by its page parameter (BASE has none: 0).  A document *)
(* is what cheerio reads from it: whether the data table is present, the   *)
(* table's rows (number of cells, id from the link, name, team, age) and   *)
(* the integer labels of the paginator.  A numeric cell that Number(...)   *)
(* turns into 0 or NaN becomes null in the code; null age is modelled as 0 *)
(* and a null id as the empty string.  Times are in milliseconds.          *)
(***************************************************************************)
EXTENDS Integers, Sequences, FiniteSets, TLC

(* ------------------------------ bounds --------------------------------- *)
MaxPages == 3      \* the source has 1..MaxPages pages
MaxRuns  == 3      \* /refresh requests served, one after the other
MaxLen   == 3      \* length of the accumulator in the dedupe-only runs

(* ------------------------- program constants --------------------------- *)
BASE == 0
REQUEST_DELAY_MS_MIN == 2500
REQUEST_DELAY_MS_MAX == 4000
MAX_RETRIES == 5
MAX_PAGES_DEBUG == 0
BACKOFF_CAP_MS == 60000
BACKOFF_UNIT_MS == 1000
MIN_CELLS == 8
PROGRESS_EVERY == 10

NoId == ""
NoAge == 0

(* ------------------------------ helpers -------------------------------- *)
Min(a, b) == IF a <= b THEN a ELSE b

RECURSIVE Pow2(_)
Pow2(n) == IF n = 0 THEN 1 ELSE 2 * Pow2(n - 1)

\* jitter(): REQUEST_DELAY_MS_MIN + floor(random * (MAX - MIN + 1)); k is the floor.
JitterNoFloor(k) == k
Jitter(k) == REQUEST_DELAY_MS_MIN + k
JitterFloors == {0, REQUEST_DELAY_MS_MAX - REQUEST_DELAY_MS_MIN}

(* ------------------------------ fetchHtml ------------------------------ *)
Statuses == {200, 404, 429, 503}

IsOk(status) == status >= 200 /\ status < 300

RetryableLoose(status) == status = 429 \/ (status >= 400 /\ status < 600)
Retryable(status) == status = 429 \/ (status >= 500 /\ status < 600)

BackoffUncounted(attempt) == Min(BACKOFF_CAP_MS, Pow2(attempt - 1) * BACKOFF_UNIT_MS)
Backoff(attempt) == Min(BACKOFF_CAP_MS, Pow2(attempt) * BACKOFF_UNIT_MS)

MayRetryOnceMore(attempt) == attempt <= MAX_RETRIES
MayRetry(attempt) == attempt < MAX_RETRIES

(* ------------------------------ documents ------------------------------ *)
Row(cells, id, name, team, age) ==
  [cells |-> cells, id |-> id, name |-> name, team |-> team, age |-> age]

\* The rows of page p of the source: one player of its own, on odd pages after
\* the first a player already listed on the previous page (same id), one player
\* without a detail link that recurs on every other page, and one short row.
PageRows(p) ==
  << Row(8, ToString(p), "p", "t", 20 + p) >>
  \o (IF p > 1 /\ p % 2 = 1 THEN << Row(8, ToString(p - 1), "q", "t", 19 + p) >>
      ELSE << >>)
  \o << Row(9, NoId, "n", IF p % 2 = 1 THEN "x" ELSE "y", NoAge),
        Row(7, ToString(p + 100), "s", "t", 30) >>

Pager(n) == IF n = 1 THEN << >> ELSE << 1, 2, n >>

\* Whether the document of page p has a table whose first row reads "player name"
\* and "overall": page 2 is served with its rows under another heading.
HasTable(p) == p # 2

\* What the source serves for a URL while it has n pages.
SiteDoc(url, n) ==
  LET page == IF url = BASE THEN 1 ELSE url
  IN [table |-> HasTable(page), rows |-> PageRows(page), pager |-> Pager(n)]

RECURSIVE ParseRows(_)
ParseRows(rows) ==
  IF rows = << >> THEN << >>
  ELSE LET tr == Head(rows)
       IN (IF tr.cells < MIN_CELLS THEN << >>
           ELSE << [id |-> tr.id, name |-> tr.name, team |-> tr.team, age |-> tr.age] >>)
          \o ParseRows(Tail(rows))

ParsePageAnyTable(html) == ParseRows(html.rows)
ParsePage(html) == IF ~html.table THEN << >> ELSE ParseRows(html.rows)

RECURSIVE MaxLabel(_, _)
MaxLabel(labels, last) ==
  IF labels = << >> THEN last
  ELSE MaxLabel(Tail(labels), IF Head(labels) > last THEN Head(labels) ELSE last)

DetectLastPage(html) == MaxLabel(html.pager, 1)

LimitOfAlwaysCapped(lastPage) ==
  IF MAX_PAGES_DEBUG >= 0 THEN Min(lastPage, MAX_PAGES_DEBUG) ELSE lastPage
LimitOf(lastPage) ==
  IF MAX_PAGES_DEBUG > 0 THEN Min(lastPage, MAX_PAGES_DEBUG) ELSE lastPage

(* ------------------------------ checkpoint ----------------------------- *)
NoFile == [exists |-> FALSE, lastPageDone |-> 0]

LoadCheckpoint(file) == IF ~file.exists THEN 0 ELSE file.lastPageDone
SaveCheckpointAhead(page) == [exists |-> TRUE, lastPageDone |-> page + 1]
SaveCheckpoint(page) == [exists |-> TRUE, lastPageDone |-> page]

StartPageSkip(loaded) == IF loaded = 0 THEN 1 ELSE loaded + 1
StartPage(loaded) == IF loaded = 0 THEN 1 ELSE loaded

ShouldResetNever(loaded, limit) == FALSE
ShouldResetStrict(loaded, limit) == loaded > limit
ShouldReset(loaded, limit) == loaded >= limit

(* ------------------------------ dedupe --------------------------------- *)
AgeText(age) == IF age = NoAge THEN "null" ELSE ToString(age)

Key(r) ==
  IF r.id # NoId THEN "id:" \o r.id
  ELSE "nt:" \o r.name \o "|" \o r.team \o "|" \o AgeText(r.age)

RECURSIVE DedupeFrom(_, _, _)
DedupeFrom(all, seen, deduped) ==
  IF all = << >> THEN deduped
  ELSE LET r == Head(all)
       IN IF Key(r) \notin seen
          THEN DedupeFrom(Tail(all), seen \cup {Key(r)}, Append(deduped, r))
          ELSE DedupeFrom(Tail(all), seen, deduped)

DedupeKeepAll(all) == all
Dedupe(all) == DedupeFrom(all, {}, << >>)


(* ------------------------------- state --------------------------------- *)
VARIABLES
  checkpointFile,  \* CHECKPOINT_FILE
  SNAPSHOT,        \* the published snapshot of the serving layer
  srcPages,        \* number of pages the remote source has at present
  pc,              \* where the /refresh handler and its crawlAll call stand
  firstHtml, lastPage, limit, all, startPage, p,   \* locals of crawlAll
  result,          \* what crawlAll returned or threw
  progress,        \* lines written through onProgress in the current run
  fst, furl, attempt, fbody,   \* the fetchHtml call in progress
  requests,        \* GET requests issued by the fetchHtml call
  waits,           \* backoff sleeps of the fetchHtml call: [ms, jitter]
  fstatus,         \* status of the last response of the fetchHtml call
  slept,           \* time slept since the last response (or since the run began)
  runs,            \* /refresh requests served so far
  startCk,         \* what loadCheckpoint() returned at line 135 of the current run
  extracted,       \* page numbers pushed to the accumulator in the current run
  fetched,         \* URLs whose fetchHtml call returned a body in the current run
  walkError,       \* the page walk of the current run was left through catch/break
  ckAtAbort,       \* loadCheckpoint() value when the walk was left through break
  failStage,       \* which fetchHtml call made crawlAll throw
  prevPages,       \* srcPages during the previous run (0: none)
  prevAborted,     \* the previous run left its walk through break
  prevFull,        \* the previous run started at page 1 and walked to limit
  pcB,             \* where a second /refresh handler and its crawlAll call stand
  pB, limitB, allB \* locals p, limit and all of that second crawlAll call

crawlVars == << pc, firstHtml, lastPage, limit, all, startPage, p, result, progress >>
fetchVars == << fst, furl, attempt, fbody, requests, waits, fstatus >>
histVars  == << runs, startCk, extracted, fetched, walkError, ckAtAbort, failStage,
                prevPages, prevAborted, prevFull >>
raceVars  == << pcB, pB, limitB, allB >>
vars == << checkpointFile, SNAPSHOT, srcPages, crawlVars, fetchVars, slept, histVars, raceVars >>

NoDoc == [table |-> FALSE, rows |-> << >>, pager |-> << >>]
NoResult == [kind |-> "none", players |-> << >>, pages |-> 0]

Init ==
  /\ checkpointFile = NoFile
  /\ SNAPSHOT = [players |-> << >>, pages |-> 0]
  /\ srcPages \in 1..MaxPages
  /\ pc = "idle"
  /\ firstHtml = NoDoc /\ lastPage = 0 /\ limit = 0 /\ all = << >>
  /\ startPage = 0 /\ p = 0
  /\ result = NoResult /\ progress = << >>
  /\ fst = "idle" /\ furl = BASE /\ attempt = 0 /\ fbody = NoDoc
  /\ requests = 0 /\ waits = << >> /\ fstatus = 0
  /\ slept = 0
  /\ runs = 0 /\ startCk = 0 /\ extracted = << >> /\ fetched = << >> /\ walkError = FALSE
  /\ ckAtAbort = 0 /\ failStage = "none" /\ prevPages = 0 /\ prevAborted = FALSE
  /\ prevFull = FALSE
  /\ pcB = "idle" /\ pB = 0 /\ limitB = 0 /\ allB = << >>

(* --------------------------- fetchHtml steps --------------------------- *)
\* fetchHtml(url) is entered: attempt = 0 and the first GET is about to be issued.
CallFetch(url) ==
  /\ fst' = "get" /\ furl' = url /\ attempt' = 0 /\ fbody' = NoDoc
  /\ requests' = 0 /\ waits' = << >> /\ fstatus' = 0

\* One GET and its response: return the body, count a retry, or throw.
FetchRespond ==
  /\ fst = "get"
  /\ \E status \in Statuses :
       /\ requests' = requests + 1
       /\ fstatus' = status
       /\ slept' = 0
       /\ IF IsOk(status)
          THEN /\ fst' = "returned" /\ fbody' = SiteDoc(furl, srcPages)
               /\ attempt' = attempt /\ fetched' = Append(fetched, furl)
          ELSE IF Retryable(status)
          THEN /\ fst' = "backoff" /\ attempt' = attempt + 1
               /\ fbody' = fbody /\ fetched' = fetched
          ELSE /\ fst' = "thrown" /\ attempt' = attempt
               /\ fbody' = fbody /\ fetched' = fetched
  /\ UNCHANGED << checkpointFile, SNAPSHOT, srcPages, crawlVars, furl, waits, runs,
                  startCk, extracted, walkError, ckAtAbort, failStage, prevPages,
                  prevAborted, prevFull, raceVars >>

\* The warning line and the backoff sleep, then either the next GET or the throw.
FetchBackoff ==
  /\ fst = "backoff"
  /\ \E k \in JitterFloors :
       LET wait == Backoff(attempt) + Jitter(k)
       IN /\ waits' = Append(waits, [ms |-> wait, jitter |-> Jitter(k)])
          /\ slept' = slept + wait
  /\ fst' = IF MayRetry(attempt) THEN "get" ELSE "thrown"
  /\ UNCHANGED << checkpointFile, SNAPSHOT, srcPages, crawlVars, furl, attempt, fbody,
                  requests, fstatus, histVars, raceVars >>


(* ------------------------------ crawlAll ------------------------------- *)
\* app.get("/refresh"): the handler calls crawlAll, which calls fetchHtml(BASE).
Refresh ==
  /\ pc = "idle" /\ runs < MaxRuns
  /\ runs' = runs + 1
  /\ pc' = "probe"
  /\ CallFetch(BASE)
  /\ firstHtml' = NoDoc /\ lastPage' = 0 /\ limit' = 0 /\ all' = << >>
  /\ startPage' = 0 /\ p' = 0 /\ result' = NoResult /\ progress' = << >>
  /\ slept' = 0
  /\ startCk' = 0 /\ extracted' = << >> /\ fetched' = << >> /\ walkError' = FALSE
  /\ ckAtAbort' = 0
  /\ failStage' = "none"
  /\ UNCHANGED << checkpointFile, SNAPSHOT, srcPages, prevPages, prevAborted, prevFull, raceVars >>

\* Line 128 throws: crawlAll rejects before anything else happened.
ProbeFail ==
  /\ pc = "probe" /\ fst = "thrown"
  /\ pc' = "failed" /\ fst' = "idle"
  /\ result' = [kind |-> "error", players |-> << >>, pages |-> fstatus]
  /\ failStage' = "probe"
  /\ UNCHANGED << checkpointFile, SNAPSHOT, srcPages, firstHtml, lastPage, limit, all,
                  startPage, p, progress, furl, attempt, fbody, requests, waits, fstatus,
                  slept, runs, startCk, extracted, fetched, walkError, ckAtAbort,
                  prevPages, prevAborted, prevFull, raceVars >>

\* Lines 128-140 with startPage === 1: page 1 is taken from the probe document.
ProbeFresh ==
  /\ pc = "probe" /\ fst = "returned"
  /\ StartPage(LoadCheckpoint(checkpointFile)) = 1
  /\ firstHtml' = fbody
  /\ lastPage' = DetectLastPage(fbody)
  /\ limit' = LimitOf(DetectLastPage(fbody))
  /\ progress' = Append(progress, "pages")
  /\ startCk' = LoadCheckpoint(checkpointFile)
  /\ all' = all \o ParsePage(fbody)
  /\ extracted' = Append(extracted, 1)
  /\ checkpointFile' = SaveCheckpoint(1)
  /\ startPage' = 2 /\ p' = 2
  /\ pc' = "loop" /\ fst' = "idle"
  /\ UNCHANGED << SNAPSHOT, srcPages, result, furl, attempt, fbody, requests, waits,
                  fstatus, slept, runs, fetched, walkError, ckAtAbort, failStage,
                  prevPages, prevAborted, prevFull, raceVars >>

\* Lines 128-145 with startPage > 1: sleep, then fetchHtml of the checkpointed page.
ProbeResume ==
  /\ pc = "probe" /\ fst = "returned"
  /\ StartPage(LoadCheckpoint(checkpointFile)) # 1
  /\ firstHtml' = fbody
  /\ lastPage' = DetectLastPage(fbody)
  /\ limit' = LimitOf(DetectLastPage(fbody))
  /\ progress' = Append(progress, "pages")
  /\ startCk' = LoadCheckpoint(checkpointFile)
  /\ startPage' = StartPage(LoadCheckpoint(checkpointFile))
  /\ \E k \in JitterFloors : slept' = slept + Jitter(k)
  /\ CallFetch(StartPage(LoadCheckpoint(checkpointFile)))
  /\ pc' = "resume"
  /\ UNCHANGED << checkpointFile, SNAPSHOT, srcPages, all, p, result, runs, extracted,
                  fetched, walkError, ckAtAbort, failStage, prevPages, prevAborted, prevFull, raceVars >>

\* Line 145 throws outside any try block: crawlAll rejects.
ResumeFail ==
  /\ pc = "resume" /\ fst = "thrown"
  /\ pc' = "failed" /\ fst' = "idle"
  /\ result' = [kind |-> "error", players |-> << >>, pages |-> fstatus]
  /\ failStage' = "resume"
  /\ UNCHANGED << checkpointFile, SNAPSHOT, srcPages, firstHtml, lastPage, limit, all,
                  startPage, p, progress, furl, attempt, fbody, requests, waits, fstatus,
                  slept, runs, startCk, extracted, fetched, walkError, ckAtAbort,
                  prevPages, prevAborted, prevFull, raceVars >>

\* Lines 146-150: the re-fetched page is pushed and the loop starts at startPage.
ResumeDone ==
  /\ pc = "resume" /\ fst = "returned"
  /\ all' = all \o ParsePage(fbody)
  /\ extracted' = Append(extracted, startPage)
  /\ progress' = Append(progress, "resumed")
  /\ p' = startPage
  /\ pc' = "loop" /\ fst' = "idle"
  /\ UNCHANGED << checkpointFile, SNAPSHOT, srcPages, firstHtml, lastPage, limit,
                  startPage, result, furl, attempt, fbody, requests, waits, fstatus,
                  slept, runs, startCk, fetched, walkError, ckAtAbort, failStage,
                  prevPages, prevAborted, prevFull, raceVars >>

\* Lines 150-154: p <= limit, sleep(jitter()) and fetchHtml of page p.
LoopFetch ==
  /\ pc = "loop" /\ p <= limit
  /\ \E k \in JitterFloors : slept' = slept + Jitter(k)
  /\ CallFetch(p)
  /\ pc' = "page"
  /\ UNCHANGED << checkpointFile, SNAPSHOT, srcPages, firstHtml, lastPage, limit, all,
                  startPage, p, result, progress, histVars, raceVars >>

\* Lines 155-158 and p++: push the rows, save the checkpoint, report every tenth page.
PageDone ==
  /\ pc = "page" /\ fst = "returned"
  /\ all' = all \o ParsePage(fbody)
  /\ extracted' = Append(extracted, p)
  /\ checkpointFile' = SaveCheckpoint(p)
  /\ progress' = IF p % PROGRESS_EVERY = 0 THEN Append(progress, "progress") ELSE progress
  /\ p' = p + 1
  /\ pc' = "loop" /\ fst' = "idle"
  /\ UNCHANGED << SNAPSHOT, srcPages, firstHtml, lastPage, limit, startPage, result,
                  furl, attempt, fbody, requests, waits, fstatus, slept, runs, startCk,
                  fetched, walkError, ckAtAbort, failStage, prevPages, prevAborted, prevFull, raceVars >>

\* Lines 159-162: the error line and break.
PageFail ==
  /\ pc = "page" /\ fst = "thrown"
  /\ progress' = Append(progress, "error")
  /\ walkError' = TRUE
  /\ ckAtAbort' = LoadCheckpoint(checkpointFile)
  /\ pc' = "dedupe" /\ fst' = "idle"
  /\ UNCHANGED << checkpointFile, SNAPSHOT, srcPages, firstHtml, lastPage, limit, all,
                  startPage, p, result, furl, attempt, fbody, requests, waits, fstatus,
                  slept, runs, startCk, extracted, fetched, failStage, prevPages,
                  prevAborted, prevFull, raceVars >>

\* Line 150 with p > limit: the loop ends.
LoopExit ==
  /\ pc = "loop" /\ p > limit
  /\ pc' = "dedupe"
  /\ UNCHANGED << checkpointFile, SNAPSHOT, srcPages, firstHtml, lastPage, limit, all,
                  startPage, p, result, progress, fetchVars, slept, histVars, raceVars >>

\* Lines 165-181: dedupe, checkpoint reset, and the returned snapshot.
Finish ==
  /\ pc = "dedupe"
  /\ result' = [kind |-> "snapshot", players |-> Dedupe(all), pages |-> limit]
  /\ checkpointFile' = IF ShouldReset(LoadCheckpoint(checkpointFile), limit)
                       THEN SaveCheckpoint(0) ELSE checkpointFile
  /\ pc' = "returned"
  /\ UNCHANGED << SNAPSHOT, srcPages, firstHtml, lastPage, limit, all, startPage, p,
                  progress, fetchVars, slept, histVars, raceVars >>

(* ------------------------------ /refresh ------------------------------- *)
\* Lines 311-314: the returned snapshot is published.
RefreshPublish ==
  /\ pc = "returned"
  /\ SNAPSHOT' = [players |-> result.players, pages |-> result.pages]
  /\ pc' = "idle"
  /\ prevPages' = srcPages /\ prevAborted' = walkError
  /\ prevFull' = (~walkError /\ startCk <= 1)
  /\ UNCHANGED << checkpointFile, srcPages, firstHtml, lastPage, limit, all, startPage,
                  p, result, progress, fetchVars, slept, runs, startCk, extracted,
                  fetched, walkError, ckAtAbort, failStage, raceVars >>

RefreshCatchPublishes ==
  /\ pc = "failed"
  /\ pc' = "idle"
  /\ SNAPSHOT' = [players |-> result.players, pages |-> result.pages]
  /\ prevPages' = srcPages /\ prevAborted' = walkError /\ prevFull' = FALSE
  /\ UNCHANGED << checkpointFile, srcPages, firstHtml, lastPage, limit, all,
                  startPage, p, result, progress, fetchVars, slept, runs, startCk,
                  extracted, fetched, walkError, ckAtAbort, failStage, raceVars >>

\* Lines 315-317: crawlAll rejected, the handler answers 500.
RefreshCatch ==
  /\ pc = "failed"
  /\ pc' = "idle"
  /\ prevPages' = srcPages /\ prevAborted' = walkError /\ prevFull' = FALSE
  /\ UNCHANGED << checkpointFile, SNAPSHOT, srcPages, firstHtml, lastPage, limit, all,
                  startPage, p, result, progress, fetchVars, slept, runs, startCk,
                  extracted, fetched, walkError, ckAtAbort, failStage, raceVars >>

\* The remote source gains or loses pages between two runs.
SourceChange ==
  /\ pc = "idle" /\ runs >= 1 /\ runs < MaxRuns
  /\ \E n \in 1..MaxPages : n # srcPages /\ srcPages' = n
  /\ UNCHANGED << checkpointFile, SNAPSHOT, crawlVars, fetchVars, slept, histVars, raceVars >>

Next ==
  \/ Refresh \/ FetchRespond \/ FetchBackoff
  \/ ProbeFail \/ ProbeFresh \/ ProbeResume \/ ResumeFail \/ ResumeDone
  \/ LoopFetch \/ PageDone \/ PageFail \/ LoopExit \/ Finish
  \/ RefreshPublish \/ RefreshCatch \/ SourceChange

Spec == Init /\ [][Next]_vars

(* ------------------- a second /refresh request in flight --------------- *)
\* The handler of lines 306-318 takes no lock: a /refresh request that arrives while
\* another handler awaits inside crawlAll starts a crawlAll call of its own. Each
\* fetchHtml call of this second run is one step that returns the body or throws,
\* taken together with the statements that follow it up to the next fetchHtml call.
RefreshB ==
  /\ pcB = "idle" /\ runs < MaxRuns
  /\ runs' = runs + 1
  /\ pcB' = "probe" /\ pB' = 0 /\ limitB' = 0 /\ allB' = << >>
  /\ UNCHANGED << checkpointFile, SNAPSHOT, srcPages, crawlVars, fetchVars, slept,
                  startCk, extracted, fetched, walkError, ckAtAbort, failStage,
                  prevPages, prevAborted, prevFull >>

\* Lines 128-144 of the second run, or line 128 throws and the handler answers 500.
ProbeB ==
  /\ pcB = "probe"
  /\ \/ /\ pcB' = "idle"
        /\ UNCHANGED << checkpointFile, pB, limitB, allB >>
     \/ LET html == SiteDoc(BASE, srcPages)
            start == StartPage(LoadCheckpoint(checkpointFile))
        IN /\ limitB' = LimitOf(DetectLastPage(html))
           /\ IF start = 1
              THEN /\ allB' = allB \o ParsePage(html)
                   /\ checkpointFile' = SaveCheckpoint(1)
                   /\ pB' = 2 /\ pcB' = "loop"
              ELSE /\ pB' = start /\ pcB' = "resume"
                   /\ UNCHANGED << checkpointFile, allB >>
  /\ UNCHANGED << SNAPSHOT, srcPages, crawlVars, fetchVars, slept, histVars >>

\* Lines 145-148 of the second run, or line 145 throws and the handler answers 500.
ResumeB ==
  /\ pcB = "resume"
  /\ \/ /\ pcB' = "idle" /\ allB' = allB
     \/ /\ allB' = allB \o ParsePage(SiteDoc(pB, srcPages))
        /\ pcB' = "loop"
  /\ UNCHANGED << checkpointFile, SNAPSHOT, srcPages, crawlVars, fetchVars, slept,
                  histVars, pB, limitB >>

\* Lines 150-163 of the second run: one page, or the catch and break.
PageB ==
  /\ pcB = "loop" /\ pB <= limitB
  /\ \/ /\ allB' = allB \o ParsePage(SiteDoc(pB, srcPages))
        /\ checkpointFile' = SaveCheckpoint(pB)
        /\ pB' = pB + 1 /\ pcB' = "loop"
     \/ /\ pcB' = "dedupe"
        /\ UNCHANGED << checkpointFile, pB, allB >>
  /\ UNCHANGED << SNAPSHOT, srcPages, crawlVars, fetchVars, slept, histVars, limitB >>

\* Lines 165-181 and 311-314 of the second run: dedupe, reset, publish.
FinishB ==
  /\ \/ pcB = "dedupe"
     \/ pcB = "loop" /\ pB > limitB
  /\ checkpointFile' = IF ShouldReset(LoadCheckpoint(checkpointFile), limitB)
                       THEN SaveCheckpoint(0) ELSE checkpointFile
  /\ SNAPSHOT' = [players |-> Dedupe(allB), pages |-> limitB]
  /\ pcB' = "idle"
  /\ UNCHANGED << srcPages, crawlVars, fetchVars, slept, histVars, pB, limitB, allB >>

RaceNext ==
  \/ Next
  \/ RefreshB \/ ProbeB \/ ResumeB \/ PageB \/ FinishB

RaceSpec == Init /\ [][RaceNext]_vars

(* ----------------- the dedupe pass on any accumulator ------------------ *)
\* Records parsePage can produce; names and teams are free text.
DedupeRecords ==
  { [id |-> i, name |-> nt[1], team |-> nt[2], age |-> a] :
      i \in {NoId, "7"},
      nt \in { << "a|b", "c" >>, << "a", "b|c" >>, << "a", "c" >> },
      a \in {NoAge, 20} }

SeqsUpTo(S, n) == UNION { [1..k -> S] : k \in 0..n }

\* crawlAll stands at line 165 with any accumulator of at most MaxLen records.
InitDedupe ==
  /\ checkpointFile = SaveCheckpoint(1)
  /\ SNAPSHOT = [players |-> << >>, pages |-> 0]
  /\ srcPages = 1
  /\ pc = "dedupe"
  /\ firstHtml = NoDoc /\ lastPage = 1 /\ limit = 1
  /\ all \in SeqsUpTo(DedupeRecords, MaxLen)
  /\ startPage = 2 /\ p = 2
  /\ result = NoResult /\ progress = << "pages" >>
  /\ fst = "idle" /\ furl = BASE /\ attempt = 0 /\ fbody = NoDoc
  /\ requests = 1 /\ waits = << >> /\ fstatus = 200
  /\ slept = 0
  /\ runs = 1 /\ startCk = 0 /\ extracted = << 1 >> /\ fetched = << BASE >>
  /\ walkError = FALSE
  /\ ckAtAbort = 0 /\ failStage = "none" /\ prevPages = 0 /\ prevAborted = FALSE
  /\ prevFull = FALSE
  /\ pcB = "idle" /\ pB = 0 /\ limitB = 0 /\ allB = << >>

DedupeSpec == InitDedupe /\ [][Finish]_vars


(* ======================== properties of the crawl ====================== *)
Range(seq) == { seq[i] : i \in 1..Len(seq) }

\* The rows parsePage reads from pages a..b of the source in its present state.
RECURSIVE RowsOfPages(_, _)
RowsOfPages(a, b) ==
  IF a > b THEN << >>
  ELSE ParsePage(SiteDoc(a, srcPages)) \o RowsOfPages(a + 1, b)

\* The records of one uninterrupted run over pages 1..n.
UninterruptedRecords(n) == Range(Dedupe(RowsOfPages(1, n)))

\* The merge key of the data model: externalId if present, else (name, team, age).
MergeKey(r) ==
  IF r.id # NoId THEN [id |-> r.id, name |-> "", team |-> "", age |-> NoAge]
  ELSE [id |-> NoId, name |-> r.name, team |-> r.team, age |-> r.age]

\* The run now returning resumed at page k < limit from the checkpoint the previous
\* run left when its walk was aborted, the source is as it was, and no fetch failed.
ResumedAfterInterruption ==
  /\ pc = "returned" /\ result.kind = "snapshot"
  /\ prevAborted /\ prevPages = srcPages
  /\ startCk > 0 /\ startCk < limit
  /\ ~walkError

\* C1: a run that resumes after an interruption at checkpoint k < limit and completes
\* over the unchanged source returns the record set of an uninterrupted run over
\* pages 1..limit.
C1_ResumedEqualsUninterrupted ==
  ResumedAfterInterruption => Range(result.players) = UninterruptedRecords(limit)

\* C2: a run that starts with checkpoint k > 0 and meets no fetch failure fetches and
\* extracts page k and every page k+1..limit.
C2_ResumeCoverage ==
  (pc = "returned" /\ startCk > 0 /\ ~walkError) =>
     /\ startCk \in Range(extracted)
     /\ (IF startCk = 1 THEN BASE ELSE startCk) \in Range(fetched)
     /\ \A q \in startCk..limit :
          /\ q \in Range(extracted)
          /\ (IF q = 1 THEN BASE ELSE q) \in Range(fetched)

C2_Witness ==
  /\ pc = "returned" /\ ~walkError
  /\ startCk = 2 /\ limit = 3
  /\ extracted = << 2, 2, 3 >>

\* C3: the merge keys of the records of every returned snapshot, of a completed or of
\* an interrupted run, are pairwise distinct.
C3_KeysDistinct ==
  (pc = "returned" /\ result.kind = "snapshot") =>
     \A i, j \in 1..Len(result.players) :
        i # j => MergeKey(result.players[i]) # MergeKey(result.players[j])

C3_Witness ==
  /\ pc = "returned" /\ result.kind = "snapshot"
  /\ Len(result.players) >= 2
  /\ Len(result.players) < Len(all)


(* ------------------------------ dedupe --------------------------------- *)
\* The records of all that are the first of their merge key, in order.
RECURSIVE FirstPerMergeKey(_, _)
FirstPerMergeKey(all_, n) ==
  IF n = 0 THEN << >>
  ELSE LET first == \A j \in 1..(n - 1) : MergeKey(all_[j]) # MergeKey(all_[n])
       IN FirstPerMergeKey(all_, n - 1) \o (IF first THEN << all_[n] >> ELSE << >>)

\* C4: the dedupe pass keeps exactly the first record of each merge key, in first-seen
\* order, two records being duplicates exactly when they share the externalId or,
\* without one, the triple (name, team, age).
C4_DedupeByMergeKey ==
  (pc = "returned" /\ result.kind = "snapshot") =>
     result.players = FirstPerMergeKey(all, Len(all))

(* ------------------------------ fetchHtml ------------------------------ *)
CallOver == fst \in {"returned", "thrown"}

\* attempt counts the 429/5xx responses, so every response of the call was one of
\* them exactly when attempt = requests.
AllRetryable == requests > 0 /\ attempt = requests

RECURSIVE SumMs(_)
SumMs(ws) == IF ws = << >> THEN 0 ELSE Head(ws).ms + SumMs(Tail(ws))
RECURSIVE SumJitter(_)
SumJitter(ws) == IF ws = << >> THEN 0 ELSE Head(ws).jitter + SumJitter(Tail(ws))

\* C5: a fetchHtml call issues at most 5 GET requests; with only 429/5xx responses it
\* issues exactly 5 and then throws; a 2xx response within the budget ends the call
\* with the body of that response.
C5_RetryBudget ==
  /\ requests <= MAX_RETRIES /\ Len(waits) <= requests
  /\ (fst = "thrown" /\ AllRetryable) => requests = MAX_RETRIES
  /\ (AllRetryable /\ requests = MAX_RETRIES) => fst \in {"backoff", "thrown", "idle"}
  /\ fst = "returned" =>
       /\ IsOk(fstatus)
       /\ fbody = SiteDoc(furl, srcPages)
       /\ requests = attempt + 1

C5_Witness == fst = "thrown" /\ AllRetryable /\ requests = MAX_RETRIES

\* C6: the wait before retry a is min(60000, 2^a * 1000) ms plus a jitter in
\* [2500, 4000] ms, and when every response was 429/5xx the total wait before the
\* throw is at most 60000 * 4 ms plus the sum of the jitters.
C6_BackoffBound ==
  /\ \A a \in 1..Len(waits) :
       /\ waits[a].jitter >= 2500 /\ waits[a].jitter <= 4000
       /\ waits[a].ms = Min(60000, Pow2(a) * 1000) + waits[a].jitter
  /\ (fst = "thrown" /\ AllRetryable) =>
        SumMs(waits) <= 60000 * 4 + SumJitter(waits)

C6_Witness ==
  /\ fst = "thrown" /\ AllRetryable
  /\ Len(waits) = MAX_RETRIES
  /\ SumMs(waits) = 62000 + SumJitter(waits)

\* C7: a response that is neither 2xx nor 429 nor 5xx ends the call with a throw at
\* once: every backoff sleep and every request of the call came before it.
C7_FatalImmediately ==
  (requests > 0 /\ ~IsOk(fstatus) /\ fstatus # 429 /\ ~(fstatus >= 500 /\ fstatus < 600)) =>
     /\ fst \in {"thrown", "idle"}
     /\ Len(waits) = attempt
     /\ requests = attempt + 1

C7_Witness ==
  /\ fst = "thrown" /\ fstatus = 404
  /\ attempt = 2 /\ requests = 3 /\ Len(waits) = 2

(* --------------------------- interruption ------------------------------ *)
\* C8: once the probe has succeeded, a fetch failure for a later page does not make
\* the run fail: crawlAll rejects only when the probe itself fails, and a run whose
\* walk stopped on an error returns the deduplicated records pushed so far, the error
\* being the last line of the progress stream.
C8_PartialResult ==
  /\ pc = "failed" => failStage = "probe"
  /\ (walkError /\ pc = "returned") =>
       /\ result.kind = "snapshot"
       /\ result.players = Dedupe(all)
       /\ progress # << >> /\ progress[Len(progress)] = "error"

\* C9: when the walk is aborted, the checkpoint persisted when the run returns is the
\* one that was persisted when the walk stopped: not advanced, not reset to 0.
C9_CheckpointPreserved ==
  (pc = "returned" /\ walkError) =>
     /\ LoadCheckpoint(checkpointFile) = ckAtAbort
     /\ LoadCheckpoint(checkpointFile) # 0

\* C10: when the walk of a run, fresh or resumed, reaches limit without error, the
\* persisted checkpoint is 0 when crawlAll returns, so the next run starts at page 1.
C10_ResetOnCompletion ==
  (pc = "returned" /\ ~walkError) =>
     /\ LoadCheckpoint(checkpointFile) = 0
     /\ StartPage(LoadCheckpoint(checkpointFile)) = 1

C10_Witness ==
  /\ pc = "returned" /\ ~walkError
  /\ startCk = 2 /\ limit = 3 /\ p = 4
  /\ checkpointFile = SaveCheckpoint(0)


(* --------------------------- order of the walk ------------------------- *)
\* C11: a non-zero checkpoint value p is written by a run only once page p has been
\* fetched and its rows pushed to the accumulator, whether or not a failure follows.
C11_CheckpointNeverAhead ==
  [][ (checkpointFile' # checkpointFile /\ LoadCheckpoint(checkpointFile') # 0) =>
        /\ LoadCheckpoint(checkpointFile') \in Range(extracted')
        /\ (IF LoadCheckpoint(checkpointFile') = 1 THEN BASE
            ELSE LoadCheckpoint(checkpointFile')) \in Range(fetched')
        /\ Len(all') >= Len(all) ]_vars

C11_Witness ==
  /\ pc = "page" /\ fst = "thrown" /\ p = 3
  /\ LoadCheckpoint(checkpointFile) = 2
  /\ extracted = << 1, 2 >>

\* C12: the page numbers pushed to the accumulator in one run, fresh or resumed, are
\* strictly increasing, so no page is processed twice in a run.
C12_StrictlyIncreasing ==
  \A i, j \in 1..Len(extracted) : i < j => extracted[i] < extracted[j]

\* C13: a run that starts with checkpoint 0 and meets no failure extracts every page
\* 1..limit exactly once, page 1 from the probe document without a request for
\* ?page=1, and limit is min(lastPage, cap) with a cap configured, lastPage without.
C13_CleanRunCoverage ==
  (pc = "returned" /\ startCk = 0 /\ ~walkError) =>
     /\ extracted = [i \in 1..limit |-> i]
     /\ fetched = [i \in 1..limit |-> IF i = 1 THEN BASE ELSE i]
     /\ lastPage = DetectLastPage(firstHtml) /\ lastPage = srcPages
     /\ limit = (IF MAX_PAGES_DEBUG > 0 THEN Min(lastPage, MAX_PAGES_DEBUG) ELSE lastPage)

C13_Witness ==
  /\ pc = "returned" /\ startCk = 0 /\ ~walkError
  /\ limit = 3 /\ extracted = << 1, 2, 3 >> /\ fetched = << BASE, 2, 3 >>


(* ----------------------------- idempotence ----------------------------- *)
\* The run now returning walked to limit, and so did the run before it, from page 1,
\* over the same source.
SecondFullRun ==
  /\ pc = "returned" /\ ~walkError
  /\ prevFull /\ prevPages = srcPages

\* C14: two full crawls in a row over an unchanged source return the same records in
\* the same order and the same page count; the second starts at page 1 because the
\* first reset the checkpoint.
C14_Idempotent ==
  SecondFullRun =>
     /\ startCk = 0
     /\ result.players = SNAPSHOT.players
     /\ result.pages = SNAPSHOT.pages

C14_Witness ==
  /\ SecondFullRun
  /\ limit = 3 /\ extracted = << 1, 2, 3 >>
  /\ Len(result.players) >= 3


(* ---------------------------- probe failure ---------------------------- *)
\* crawlAll rejected at line 128, and the /refresh handler has or has not yet answered.
ProbeFailed == failStage = "probe"

\* C15: when the probe fetch fails the run rejects before any page is walked, and from
\* the /refresh request up to the handler's answer neither the checkpoint file nor the
\* published snapshot changes.
C15_ProbeFailureNoTrace ==
  /\ [](ProbeFailed => (pc \in {"failed", "idle"} /\ all = << >> /\ extracted = << >>
                         /\ result.kind = "error"))
  /\ [][ (pc' = "probe" \/ ProbeFailed \/ ProbeFailed') =>
            (checkpointFile' = checkpointFile /\ SNAPSHOT' = SNAPSHOT) ]_vars

C15_Witness ==
  /\ pc = "idle" /\ ProbeFailed
  /\ LoadCheckpoint(checkpointFile) = 2
  /\ SNAPSHOT.pages = 3 /\ Len(SNAPSHOT.players) > 0


(* ------------------------------ politeness ----------------------------- *)
\* A GET is about to be issued and it is not the first of the run.
RequestDue == fst = "get" /\ ~(pc = "probe" /\ requests = 0)

\* C16: a run has one fetchHtml call in progress at a time, a call is begun only when
\* the one before it is over, and every GET but the run's first is issued after at
\* least REQUEST_DELAY_MS_MIN ms of sleep since the previous response.
C16_Politeness ==
  /\ [](RequestDue => slept >= REQUEST_DELAY_MS_MIN)
  /\ [][ (fst' = "get" /\ requests' = 0 /\ (fst # "get" \/ requests # 0)) =>
            fst \in {"idle", "returned"} ]_vars
  /\ [][ requests' \in {0, requests, requests + 1} ]_vars

C16_Witness ==
  /\ pc = "resume" /\ RequestDue /\ requests = 2
  /\ slept >= Backoff(2) + REQUEST_DELAY_MS_MIN


(* --------------------------- concurrent runs --------------------------- *)
BothActive == pc # "idle" /\ pcB # "idle"

\* C17: in whatever order /refresh requests arrive, at most one crawl run is active at
\* a time, and so the checkpoint file is never written while two runs are active.
C17_SingleActiveRun ==
  /\ [](~BothActive)
  /\ [][ checkpointFile' # checkpointFile => ~(BothActive \/ BothActive') ]_vars


(* -------------------------- extraction mismatch ------------------------ *)
\* The page walk holds the body of page p and the body has no matching table.
TablelessPage == pc = "page" /\ fst = "returned" /\ ~fbody.table

\* C18: a fetched page without a matching table adds no record, the checkpoint is
\* still set to that page, and the walk goes on to the next page.
C18_MismatchNonFatal ==
  [][ TablelessPage =>
        /\ ParsePage(fbody) = << >>
        /\ all' = all
        /\ checkpointFile' = SaveCheckpoint(p)
        /\ pc' = "loop" /\ p' = p + 1 /\ ~walkError' ]_vars

C18_Witness ==
  /\ pc = "page" /\ fst = "returned" /\ p = 3 /\ fbody.table
  /\ extracted = << 1, 2 >> /\ fetched = << BASE, 2, 3 >>
  /\ all = ParsePage(SiteDoc(BASE, srcPages))
  /\ LoadCheckpoint(checkpointFile) = 2


(* ------------------------- retries and backoffs ------------------------ *)
\* C19: when a fetchHtml call is over, the warning lines and backoff sleeps it made
\* number one less than the GET requests it issued: each is followed by a request.
C19_OneBackoffPerRetry ==
  (fst \in {"returned", "thrown"}) => Len(waits) = requests - 1

(* --------------------------- checkpoint recovery ----------------------- *)
\* crawlAll rejected on the re-fetch of the checkpointed page, the probe having
\* returned, and the page refused (404) lies beyond the last page of the source.
RejectedBeyondLastPage ==
  /\ pc = "failed" /\ failStage = "resume"
  /\ fstatus = 404 /\ furl > srcPages /\ startCk > lastPage

\* C20: whatever checkpoint an earlier run left, also one greater than the present
\* limit, a run in which every page 1..lastPage it asks for is fetchable returns a
\* snapshot: it never rejects over a page the source no longer has.
C20_CheckpointRecovery == ~RejectedBeyondLastPage

====
